---- MODULE Spec2Model ----
(***************************************************************************)
(* VaultAPI-Client: the request builder of src/src/request.rs              *)
(* (create_request_materials, make_request, server_connection) and the     *)
(* transit decryption of src/rust/src/lib.rs (transit_decrypt,             *)
(* decrypt_vault_secret).                                                  *)
(*                                                                         *)
(* Text is modelled as TLA+ strings where the code only tests emptiness or *)
(* concatenates, and as sequences of byte values (0..255) where the code   *)
(* works on bytes.  A base64 string is a sequence of character indices:    *)
(* 0..63 are the 64 characters of the standard alphabet, PAD is '=' and    *)
(* BADCHAR is a character outside the alphabet.                            *)
(*                                                                         *)
(* The primitives of the ring crate (SHA-256, AES-256-GCM) are replaced by *)
(* small arithmetic functions with the same interface: a 32-byte digest of *)
(* a byte string, and a seal/open pair with a 16-byte tag that open        *)
(* verifies before it releases the plaintext.                              *)
(***************************************************************************)
EXTENDS Integers, Sequences, FiniteSets, TLC

(***************************************************************************)
(* Program constants                                                       *)
(***************************************************************************)
TRANSIT_KEY_LENGTH == 32
TRANSIT_TIME_BUCKET == 60
NONCE_LEN == 12
TAG_LEN == 16
AES_256_KEY_LEN == 32
DIGEST_LEN == 32

(***************************************************************************)
(* Bounds of the model                                                     *)
(***************************************************************************)
MaxTicks == 3

PAD == 64
BADCHAR == 65

(***************************************************************************)
(* Result<Value, String>                                                   *)
(***************************************************************************)
NullValue == [kind |-> "Null", n |-> 0]
Ok(v) == [ok |-> TRUE, value |-> v, err |-> ""]
Err(m) == [ok |-> FALSE, value |-> NullValue, err |-> m]

ERR_CLOCK == "System time is before the UNIX epoch"
ERR_DECODE == "Failed to decode ciphertext"
ERR_SHORT == "Ciphertext is too short"
ERR_KEY == "Failed to create AES key"
ERR_NONCE == "Failed to create nonce"
ERR_DECRYPT == "Failed to decrypt data"
ERR_JSON == "Failed to parse decrypted data as JSON"

(***************************************************************************)
(* Bytes of text                                                           *)
(***************************************************************************)
CharCode == [c \in {"k", "1", "2", "."} |->
               CASE c = "k" -> 107 [] c = "1" -> 49 [] c = "2" -> 50 [] c = "." -> 46]

as_bytes(s) == [i \in 1..Len(s) |-> CharCode[SubSeq(s, i, i)]]

RECURSIVE Decimal(_)
Decimal(n) == IF n < 10 THEN <<48 + n>> ELSE Decimal(n \div 10) \o <<48 + (n % 10)>>

(***************************************************************************)
(* serde_json over the values of the model: numbers, null, the empty       *)
(* object; surrounding blanks are accepted, anything else is an error.     *)
(***************************************************************************)
NumberValue(n) == [kind |-> "Number", n |-> n]
ObjectValue == [kind |-> "Object", n |-> 0]

to_vec(v) ==
  CASE v.kind = "Number" -> Decimal(v.n)
    [] v.kind = "Null" -> <<110, 117, 108, 108>>
    [] v.kind = "Object" -> <<123, 125>>

RECURSIVE TrimLeft(_)
TrimLeft(b) == IF b # <<>> /\ Head(b) = 32 THEN TrimLeft(Tail(b)) ELSE b

RECURSIVE TrimRight(_)
TrimRight(b) ==
  IF b # <<>> /\ b[Len(b)] = 32 THEN TrimRight(SubSeq(b, 1, Len(b) - 1)) ELSE b

IsDigits(b) == b # <<>> /\ \A i \in 1..Len(b) : b[i] \in 48..57

RECURSIVE DigitsValue(_)
DigitsValue(b) ==
  IF b = <<>> THEN 0 ELSE 10 * DigitsValue(SubSeq(b, 1, Len(b) - 1)) + (b[Len(b)] - 48)

from_slice(bytes) ==
  LET t == TrimRight(TrimLeft(bytes)) IN
  IF t = <<110, 117, 108, 108>> THEN Ok(NullValue)
  ELSE IF t = <<123, 125>> THEN Ok(ObjectValue)
  ELSE IF IsDigits(t) /\ (Len(t) = 1 \/ t[1] # 48) THEN Ok(NumberValue(DigitsValue(t)))
  ELSE Err(ERR_JSON)

(***************************************************************************)
(* base64::engine::general_purpose::STANDARD: standard alphabet, canonical *)
(* padding required, non-zero trailing bits rejected.                      *)
(***************************************************************************)
RECURSIVE encode(_)
encode(b) ==
  IF Len(b) = 0 THEN <<>>
  ELSE IF Len(b) = 1 THEN <<b[1] \div 4, (b[1] % 4) * 16, PAD, PAD>>
  ELSE IF Len(b) = 2 THEN
    LET n == b[1] * 256 + b[2] IN <<n \div 1024, (n \div 16) % 64, (n % 16) * 4, PAD>>
  ELSE
    LET n == b[1] * 65536 + b[2] * 256 + b[3] IN
    <<n \div 262144, (n \div 4096) % 64, (n \div 64) % 64, n % 64>>
      \o encode(SubSeq(b, 4, Len(b)))

IsSextet(c) == c \in 0..63

RECURSIVE DecodeGroups(_)
DecodeGroups(s) ==
  IF Len(s) = 0 THEN [ok |-> TRUE, bytes |-> <<>>]
  ELSE
    LET c1 == s[1]
        c2 == s[2]
        c3 == s[3]
        c4 == s[4]
        last == Len(s) = 4
    IN
    IF ~IsSextet(c1) \/ ~IsSextet(c2) THEN [ok |-> FALSE, bytes |-> <<>>]
    ELSE IF last /\ c3 = PAD /\ c4 = PAD THEN
      IF c2 % 16 = 0 THEN [ok |-> TRUE, bytes |-> <<c1 * 4 + c2 \div 16>>]
      ELSE [ok |-> FALSE, bytes |-> <<>>]
    ELSE IF ~IsSextet(c3) THEN [ok |-> FALSE, bytes |-> <<>>]
    ELSE IF last /\ c4 = PAD THEN
      IF c3 % 4 = 0
      THEN [ok |-> TRUE,
            bytes |-> <<c1 * 4 + c2 \div 16, (c2 % 16) * 16 + c3 \div 4>>]
      ELSE [ok |-> FALSE, bytes |-> <<>>]
    ELSE IF ~IsSextet(c4) THEN [ok |-> FALSE, bytes |-> <<>>]
    ELSE
      LET rest == DecodeGroups(SubSeq(s, 5, Len(s))) IN
      IF rest.ok
      THEN [ok |-> TRUE,
            bytes |-> <<c1 * 4 + c2 \div 16, (c2 % 16) * 16 + c3 \div 4,
                        (c3 % 4) * 64 + c4>> \o rest.bytes]
      ELSE rest

decode(s) ==
  IF Len(s) % 4 # 0 THEN [ok |-> FALSE, bytes |-> <<>>] ELSE DecodeGroups(s)

(***************************************************************************)
(* ring::digest::digest(&SHA256, ..): a 32-byte digest of a byte string.   *)
(***************************************************************************)
RECURSIVE WeightedSum(_, _)
WeightedSum(b, w) ==
  IF b = <<>> THEN 0 ELSE (Head(b) * w + WeightedSum(Tail(b), w + 1)) % 256

digest(input) ==
  [i \in 1..DIGEST_LEN |-> (WeightedSum(input, i) + 7 * Len(input) + i) % 256]

(***************************************************************************)
(* ring::aead AES_256_GCM with empty associated data: seal appends a       *)
(* 16-byte tag over (key, nonce, ciphertext); open checks the tag first    *)
(* and fails on input shorter than the tag or on any mismatch.             *)
(***************************************************************************)
KeyStream(key, nonce, i) ==
  (key[((i - 1) % Len(key)) + 1] + nonce[((i - 1) % Len(nonce)) + 1] + i) % 256

Tag(key, nonce, ct) ==
  [i \in 1..TAG_LEN |->
     (key[i] + 3 * key[i + TAG_LEN] + nonce[((i - 1) % Len(nonce)) + 1]
        + WeightedSum(ct, i) + Len(ct)) % 256]

seal(key, nonce, pt) ==
  LET ct == [i \in 1..Len(pt) |-> (pt[i] + KeyStream(key, nonce, i)) % 256]
  IN ct \o Tag(key, nonce, ct)

open_in_place(key, nonce, data) ==
  IF Len(data) < TAG_LEN THEN [ok |-> FALSE, bytes |-> <<>>]
  ELSE
    LET ct == SubSeq(data, 1, Len(data) - TAG_LEN)
        tag == SubSeq(data, Len(data) - TAG_LEN + 1, Len(data))
    IN
    IF tag # Tag(key, nonce, ct) THEN [ok |-> FALSE, bytes |-> <<>>]
    ELSE [ok |-> TRUE,
          bytes |-> [i \in 1..Len(ct) |-> (ct[i] + 256 - KeyStream(key, nonce, i)) % 256]]

(***************************************************************************)
(* Key derivation (lib.rs 64-69): the digest of "<bucket>.<apikey>",       *)
(* truncated to key_length bytes.                                          *)
(***************************************************************************)
TimeBucket_rounded(secs, time_bucket) == (secs + time_bucket \div 2) \div time_bucket

TimeBucket(secs, time_bucket) == secs \div time_bucket

hash_input(epoch, apikey) == Decimal(epoch) \o <<46>> \o as_bytes(apikey)

aes_key(epoch, apikey, key_length) ==
  SubSeq(digest(hash_input(epoch, apikey)), 1, key_length)

(***************************************************************************)
(* transit_decrypt (lib.rs 58-111).  clock is the value SystemTime::now()  *)
(* returns inside the call, in seconds relative to the UNIX epoch.         *)
(***************************************************************************)
\* variant: no length check; the split takes at most the bytes there are
decrypt_with_key_short(key, ciphertext) ==
  LET ciphertext_bytes == decode(ciphertext) IN
  IF ~ciphertext_bytes.ok THEN Err(ERR_DECODE)
  ELSE
    LET n == Len(ciphertext_bytes.bytes)
        nonce_bytes == SubSeq(ciphertext_bytes.bytes, 1, IF n < NONCE_LEN THEN n ELSE NONCE_LEN)
        encrypted_data == SubSeq(ciphertext_bytes.bytes, NONCE_LEN + 1, n)
    IN
    IF Len(key) # AES_256_KEY_LEN THEN Err(ERR_KEY)
    ELSE IF Len(nonce_bytes) # NONCE_LEN THEN Err(ERR_NONCE)
    ELSE
      LET decrypted_data == open_in_place(key, nonce_bytes, encrypted_data) IN
      IF ~decrypted_data.ok THEN Err(ERR_DECRYPT)
      ELSE from_slice(decrypted_data.bytes)

\* lines 72-110: everything after the key derivation
decrypt_with_key(key, ciphertext) ==
  LET ciphertext_bytes == decode(ciphertext) IN
  IF ~ciphertext_bytes.ok THEN Err(ERR_DECODE)
  ELSE IF Len(ciphertext_bytes.bytes) < NONCE_LEN THEN Err(ERR_SHORT)
  ELSE
    LET nonce_bytes == SubSeq(ciphertext_bytes.bytes, 1, NONCE_LEN)
        encrypted_data ==
          SubSeq(ciphertext_bytes.bytes, NONCE_LEN + 1, Len(ciphertext_bytes.bytes))
    IN
    IF Len(key) # AES_256_KEY_LEN THEN Err(ERR_KEY)
    ELSE IF Len(nonce_bytes) # NONCE_LEN THEN Err(ERR_NONCE)
    ELSE
      LET decrypted_data == open_in_place(key, nonce_bytes, encrypted_data) IN
      IF ~decrypted_data.ok THEN Err(ERR_DECRYPT)
      ELSE from_slice(decrypted_data.bytes)

\* variant: a failed decryption is retried with the key of the previous bucket
decrypt_steps_neighbour(apikey, ciphertext, key_length, time_bucket, clock) ==
  IF clock < 0 THEN Err(ERR_CLOCK)
  ELSE
    LET epoch == TimeBucket(clock, time_bucket)
        first == decrypt_with_key(aes_key(epoch, apikey, key_length), ciphertext)
    IN
    IF first = Err(ERR_DECRYPT) /\ epoch > 0
    THEN decrypt_with_key(aes_key(epoch - 1, apikey, key_length), ciphertext)
    ELSE first

\* variant: the ciphertext is decoded before the clock is read
decrypt_steps_decode_first(apikey, ciphertext, key_length, time_bucket, clock) ==
  IF ~decode(ciphertext).ok THEN Err(ERR_DECODE)
  ELSE IF clock < 0 THEN Err(ERR_CLOCK)
  ELSE decrypt_with_key(aes_key(TimeBucket(clock, time_bucket), apikey, key_length),
                        ciphertext)

decrypt_steps(apikey, ciphertext, key_length, time_bucket, clock) ==
  IF clock < 0 THEN Err(ERR_CLOCK)
  ELSE decrypt_with_key(aes_key(TimeBucket(clock, time_bucket), apikey, key_length),
                        ciphertext)

transit_decrypt(apikey, ciphertext, clock) ==
  decrypt_steps(apikey, ciphertext, TRANSIT_KEY_LENGTH, TRANSIT_TIME_BUCKET, clock)

(***************************************************************************)
(* The peer.  A server holding the credential puts on the wire, for a      *)
(* plaintext pt and its own time bucket b,                                 *)
(*   base64(nonce || AES-256-GCM(key(b, apikey), nonce, pt)).              *)
(***************************************************************************)
Nonce0 == [i \in 1..NONCE_LEN |-> i]

\* truncate(SHA-256(bucket || "." || credential), 32), as the peer computes it
DerivedKey(b, apikey) ==
  SubSeq(digest(Decimal(b) \o <<46>> \o as_bytes(apikey)), 1, 32)

Envelope(pt, apikey, b) == encode(Nonce0 \o seal(DerivedKey(b, apikey), Nonce0, pt))

Values == {NumberValue(7), NumberValue(42), NullValue, ObjectValue}

\* plaintexts a peer may seal: JSON texts, one padded with blanks, one not JSON
Plaintexts == {to_vec(v) : v \in Values} \cup {<<32, 55, 32>>, <<123>>}

ApiKeys == {"k1", "k2"}

\* the last byte of the tag flipped
Tamper(bytes) ==
  [bytes EXCEPT ![Len(bytes)] = (bytes[Len(bytes)] + 1) % 256]

NearBuckets(clock) ==
  LET b0 == IF clock < 0 THEN 0 ELSE clock \div TRANSIT_TIME_BUCKET
  IN {b \in {b0 - 1, b0, b0 + 1} : b >= 0}

\* every string the program may be handed as a ciphertext at time clock
WireStrings(apikey, clock) ==
  {Envelope(pt, apikey, b) : pt \in Plaintexts, b \in NearBuckets(clock)}
    \cup {Envelope(to_vec(NumberValue(7)), k, b) :
            k \in ApiKeys \ {apikey}, b \in NearBuckets(clock)}
    \cup {encode(Nonce0 \o Tamper(seal(DerivedKey(b, apikey),
                                       Nonce0, to_vec(NumberValue(7))))) :
            b \in NearBuckets(clock)}
    \cup {encode(<<>>), encode(<<5>>), encode(SubSeq(Nonce0, 1, NONCE_LEN - 1)),
          encode(Nonce0), encode(Nonce0 \o <<9>>),
          <<1, 2, 3>>, <<BADCHAR, 0, 0, 0>>, <<0, 1, PAD, PAD>>}

(***************************************************************************)
(* How a call ends: a value returned to the caller, std::process::exit, or *)
(* a panic.                                                                *)
(***************************************************************************)
NoOutcome == [kind |-> "none", result |-> Err(""), code |-> 0, msg |-> ""]
Return(r) == [kind |-> "return", result |-> r, code |-> 0, msg |-> ""]
Exit(m) == [kind |-> "exit", result |-> Err(""), code |-> 1, msg |-> m]
Panic(m) == [kind |-> "panic", result |-> Err(""), code |-> 101, msg |-> m]

MSG_TABLE == "Table name is mandatory to retrieve the secret"
MSG_UNFILLED == "Required parameters unfilled!"
MSG_NO_DETAIL == "No 'detail' key found in the response."
MSG_OBJECT == "Detail is an object"
MSG_UNEXPECTED == "Unexpected value returned"
MSG_NOT_JSON == "Failed to parse response as JSON"
MSG_FETCH == "Failed to fetch data"
MSG_URL == "Invalid URL"

(***************************************************************************)
(* request.rs                                                              *)
(***************************************************************************)
EmptyMap == <<>>
NoRequest == [url |-> "", params |-> EmptyMap, headers |-> EmptyMap]

auth_headers(apikey) ==
  ("Authorization" :> ("Bearer " \o apikey)) @@ ("Accept" :> "application/json")

\* variant: the table-name check is missing
create_request_materials_no_table_check(config) ==
  LET table == IF config.table_name # "" THEN config.table_name ELSE config.get_table
      params == "table_name" :> table
  IN
  IF config.get_secrets # "" THEN
    [exit |-> FALSE, msg |-> "",
     materials |-> [url |-> config.vault_server \o "get-secrets",
                    params |-> params @@ ("keys" :> config.get_secrets),
                    headers |-> auth_headers(config.apikey)]]
  ELSE IF config.get_secret # "" THEN
    [exit |-> FALSE, msg |-> "",
     materials |-> [url |-> config.vault_server \o "get-secret",
                    params |-> params @@ ("key" :> config.get_secret),
                    headers |-> auth_headers(config.apikey)]]
  ELSE IF config.get_table # "" THEN
    [exit |-> FALSE, msg |-> "",
     materials |-> [url |-> config.vault_server \o "get-table",
                    params |-> params,
                    headers |-> auth_headers(config.apikey)]]
  ELSE IF config.table_name = "" THEN
    [exit |-> TRUE, msg |-> MSG_UNFILLED, materials |-> NoRequest]
  ELSE
    [exit |-> FALSE, msg |-> "",
     materials |-> [url |-> "", params |-> params,
                    headers |-> auth_headers(config.apikey)]]

\* [exit, msg]: the call ended the process; otherwise the RequestMaterials
create_request_materials(config) ==
  IF config.table_name = "" /\ config.get_table = ""
  THEN [exit |-> TRUE, msg |-> MSG_TABLE, materials |-> NoRequest]
  ELSE
    LET table == IF config.table_name # "" THEN config.table_name ELSE config.get_table
        params == "table_name" :> table
    IN
    IF config.get_secrets # "" THEN
      [exit |-> FALSE, msg |-> "",
       materials |-> [url |-> config.vault_server \o "get-secrets",
                      params |-> params @@ ("keys" :> config.get_secrets),
                      headers |-> auth_headers(config.apikey)]]
    ELSE IF config.get_secret # "" THEN
      [exit |-> FALSE, msg |-> "",
       materials |-> [url |-> config.vault_server \o "get-secret",
                      params |-> params @@ ("key" :> config.get_secret),
                      headers |-> auth_headers(config.apikey)]]
    ELSE IF config.get_table # "" THEN
      [exit |-> FALSE, msg |-> "",
       materials |-> [url |-> config.vault_server \o "get-table",
                      params |-> params,
                      headers |-> auth_headers(config.apikey)]]
    ELSE IF config.table_name = "" THEN
      [exit |-> TRUE, msg |-> MSG_UNFILLED, materials |-> NoRequest]
    ELSE
      [exit |-> FALSE, msg |-> "",
       materials |-> [url |-> "", params |-> params,
                      headers |-> auth_headers(config.apikey)]]

\* reqwest::Url::parse accepts an absolute URL only
UrlParses(url) == Len(url) >= 7 /\ SubSeq(url, 1, 7) = "http://"

\* serde_json::Value of the `detail` field
NullDetail == [kind |-> "Null", s |-> <<>>]
StringDetail(s) == [kind |-> "String", s |-> s]
ObjectDetail == [kind |-> "Object", s |-> <<>>]
NumberDetail == [kind |-> "Number", s |-> <<>>]

\* what the network gives back to request.send() and response.json()
SendError == [kind |-> "send_error", has_detail |-> FALSE, detail |-> NullDetail]
NotJson == [kind |-> "not_json", has_detail |-> FALSE, detail |-> NullDetail]
Json(d) == [kind |-> "json", has_detail |-> TRUE, detail |-> d]
JsonNoDetail == [kind |-> "json", has_detail |-> FALSE, detail |-> NullDetail]
NoReply == [kind |-> "none", has_detail |-> FALSE, detail |-> NullDetail]

Replies(apikey, clock) ==
  {SendError, NotJson, JsonNoDetail, Json(NullDetail), Json(ObjectDetail), Json(NumberDetail)}
    \cup {Json(StringDetail(s)) : s \in WireStrings(apikey, clock)}

\* [end, sent, value]: end is how the process ended inside the call, or
\* NoOutcome when the call returned value; sent tells whether send() ran
make_request(server_url, reply) ==
  IF ~UrlParses(server_url)
  THEN [end |-> Panic(MSG_URL), sent |-> FALSE, value |-> NullDetail]
  ELSE IF reply.kind = "send_error"
  THEN [end |-> Exit(MSG_FETCH), sent |-> TRUE, value |-> NullDetail]
  ELSE IF reply.kind = "not_json"
  THEN [end |-> Exit(MSG_NOT_JSON), sent |-> TRUE, value |-> NullDetail]
  ELSE IF reply.has_detail
  THEN [end |-> NoOutcome, sent |-> TRUE, value |-> reply.detail]
  ELSE [end |-> NoOutcome, sent |-> TRUE, value |-> NullDetail]

\* variant: a null detail is handed on as a string
server_connection_match_null(response) ==
  CASE response.kind = "Null" -> [decrypt |-> TRUE, end |-> NoOutcome]
    [] response.kind = "String" -> [decrypt |-> TRUE, end |-> NoOutcome]
    [] response.kind = "Object" -> [decrypt |-> FALSE, end |-> Exit(MSG_OBJECT)]
    [] OTHER -> [decrypt |-> FALSE, end |-> Exit(MSG_UNEXPECTED)]

\* the match of server_connection: [decrypt, end]
server_connection_match(response) ==
  CASE response.kind = "Null" -> [decrypt |-> FALSE, end |-> Exit(MSG_NO_DETAIL)]
    [] response.kind = "String" -> [decrypt |-> TRUE, end |-> NoOutcome]
    [] response.kind = "Object" -> [decrypt |-> FALSE, end |-> Exit(MSG_OBJECT)]
    [] OTHER -> [decrypt |-> FALSE, end |-> Exit(MSG_UNEXPECTED)]

\* variant: a failed decryption ends the process like the other failures
server_connection_return_exit(result) ==
  [pc |-> "done", end |-> IF result.ok THEN Return(result) ELSE Exit(result.err)]

\* variant: a failed decryption fetches again
server_connection_return_retry(result) ==
  IF result.ok THEN [pc |-> "done", end |-> Return(result)]
  ELSE [pc |-> "request", end |-> NoOutcome]

\* `return decipher::transit_decrypt(..)`: the result goes to the caller as it is
server_connection_return(result) == [pc |-> "done", end |-> Return(result)]

\* the parameterised decryption of the decipher module
decipher_transit_decrypt(apikey, ciphertext, key_length, time_bucket, clock) ==
  decrypt_steps(apikey, ciphertext, key_length, time_bucket, clock)

(***************************************************************************)
(* State                                                                   *)
(***************************************************************************)
VARIABLES
  entry,        \* the public function that was called
  config,       \* parser::Config
  pc,           \* position in the call
  now,          \* the system clock, seconds since the UNIX epoch
  ticks,        \* clock advances so far
  request,      \* RequestMaterials
  reply,        \* what the network returned
  response,     \* the Value make_request returned
  cipher_text,  \* the string handed to transit_decrypt
  fetch_clock,  \* clock when the request was sent
  call_clock,   \* clock read inside transit_decrypt
  steps,        \* selection, fetch and decryption steps taken, in order
  outcome       \* how the call ended

vars == <<entry, config, pc, now, ticks, request, reply, response, cipher_text,
          fetch_clock, call_clock, steps, outcome>>

Names == {"", "t"}
Servers == {"http://vault/", "vault/"}
Clocks == {-1, 59}
TickSteps == {1, TRANSIT_TIME_BUCKET}

Configs ==
  [apikey : ApiKeys, vault_server : Servers, table_name : Names, get_table : Names,
   get_secret : Names, get_secrets : Names,
   transit_key_length : {TRANSIT_KEY_LENGTH}, transit_time_bucket : {TRANSIT_TIME_BUCKET}]

Init ==
  /\ entry \in {"server_connection", "decrypt_vault_secret"}
  /\ config \in Configs
  /\ entry = "decrypt_vault_secret" =>
       /\ config.vault_server = "http://vault/"
       /\ config.table_name = "" /\ config.get_table = ""
       /\ config.get_secret = "" /\ config.get_secrets = ""
  /\ pc = "start"
  /\ now \in Clocks
  /\ ticks = 0
  /\ request = NoRequest
  /\ reply = NoReply
  /\ response = NullDetail
  /\ cipher_text = <<>>
  /\ fetch_clock = 0
  /\ call_clock = 0
  /\ steps = <<>>
  /\ outcome = NoOutcome

(***************************************************************************)
(* Actions                                                                 *)
(***************************************************************************)
\* server_connection, line 80
CreateRequestMaterials ==
  /\ pc = "start" /\ entry = "server_connection"
  /\ LET m == create_request_materials(config) IN
       /\ steps' = Append(steps, "select")
       /\ IF m.exit
          THEN /\ pc' = "done"
               /\ outcome' = Exit(m.msg)
               /\ UNCHANGED request
          ELSE /\ pc' = "request"
               /\ request' = m.materials
               /\ UNCHANGED outcome
  /\ UNCHANGED <<entry, config, now, ticks, reply, response, cipher_text,
                 fetch_clock, call_clock>>

\* server_connection, lines 81-85
MakeRequest ==
  /\ pc = "request"
  /\ \E r \in Replies(config.apikey, now) :
       LET m == make_request(request.url, r) IN
         /\ (~m.sent) => r = SendError
         /\ reply' = IF m.sent THEN r ELSE NoReply
         /\ steps' = IF m.sent THEN Append(steps, "fetch") ELSE steps
         /\ fetch_clock' = IF m.sent THEN now ELSE fetch_clock
         /\ IF m.end.kind # "none"
            THEN /\ pc' = "done"
                 /\ outcome' = m.end
                 /\ UNCHANGED response
            ELSE /\ pc' = "match"
                 /\ response' = m.value
                 /\ UNCHANGED outcome
  /\ UNCHANGED <<entry, config, now, ticks, request, cipher_text, call_clock>>

\* server_connection, lines 87-107
Match ==
  /\ pc = "match"
  /\ LET m == server_connection_match(response) IN
       IF m.decrypt
       THEN /\ pc' = "decrypt"
            /\ cipher_text' = response.s
            /\ UNCHANGED outcome
       ELSE /\ pc' = "done"
            /\ outcome' = m.end
            /\ UNCHANGED cipher_text
  /\ UNCHANGED <<entry, config, now, ticks, request, reply, response,
                 fetch_clock, call_clock, steps>>

\* decrypt_vault_secret, lines 113-122: the ciphertext is a program argument
DecryptVaultSecret ==
  /\ pc = "start" /\ entry = "decrypt_vault_secret"
  /\ \E c \in WireStrings(config.apikey, now) : cipher_text' = c
  /\ pc' = "decrypt"
  /\ UNCHANGED <<entry, config, now, ticks, request, reply, response,
                 fetch_clock, call_clock, steps, outcome>>

\* the call of transit_decrypt and the return of its result
TransitDecrypt ==
  /\ pc = "decrypt"
  /\ call_clock' = now
  /\ steps' = Append(steps, "decrypt")
  /\ IF entry = "server_connection"
     THEN LET r == server_connection_return(
                     decipher_transit_decrypt(config.apikey, cipher_text,
                                              config.transit_key_length,
                                              config.transit_time_bucket, now))
          IN /\ pc' = r.pc
             /\ outcome' = r.end
     ELSE /\ pc' = "done"
          /\ outcome' = Return(transit_decrypt(config.apikey, cipher_text, now))
  /\ UNCHANGED <<entry, config, now, ticks, request, reply, response,
                 cipher_text, fetch_clock>>

\* the system clock advances while the call is in progress
Tick ==
  /\ pc # "done"
  /\ ticks < MaxTicks
  /\ \E d \in TickSteps : now' = now + d
  /\ ticks' = ticks + 1
  /\ UNCHANGED <<entry, config, pc, request, reply, response, cipher_text,
                 fetch_clock, call_clock, steps, outcome>>

Next ==
  \/ CreateRequestMaterials
  \/ MakeRequest
  \/ Match
  \/ DecryptVaultSecret
  \/ TransitDecrypt
  \/ Tick

Spec == Init /\ [][Next]_vars

(***************************************************************************)
(* Properties                                                              *)
(***************************************************************************)
IsPrefix(p, q) == Len(p) <= Len(q) /\ SubSeq(q, 1, Len(p)) = p

Took(step) == \E i \in 1..Len(steps) : steps[i] = step

InServerConnection == entry = "server_connection"

\* transit_decrypt was called and its result is in outcome
Decrypted == pc = "done" /\ outcome.kind = "return"

ModeCount(c) ==
  Cardinality({m \in {"get_secret", "get_secrets", "get_table"} : c[m] # ""})

NoTable(c) == c.table_name = "" /\ c.get_table = ""

StringReply == reply.kind = "json" /\ reply.has_detail /\ reply.detail.kind = "String"

\* `detail` null, absent or an object
NoSecretReply ==
  /\ reply.kind = "json"
  /\ ~reply.has_detail \/ reply.detail.kind \in {"Null", "Object"}

\* buckets the clock or a peer of this model can be in
BucketsInPlay == 0..((59 + MaxTicks * TRANSIT_TIME_BUCKET) \div TRANSIT_TIME_BUCKET + 1)

EnvelopeTable ==
  [k \in ApiKeys, pt \in Plaintexts, b \in BucketsInPlay |-> Envelope(pt, k, b)]

\* C1: in server_connection transit_decrypt is called only for a reply whose
\* `detail` is a string; a reply whose `detail` is null, absent or an object
\* ends in the retrieval failure (message and exit status 1) and
\* transit_decrypt is not called in that run.
C1_DecryptOnlyOnString ==
  InServerConnection =>
    /\ (pc = "decrypt" \/ Took("decrypt")) => StringReply
    /\ (NoSecretReply /\ pc \notin {"request", "match"}) =>
         /\ pc = "done"
         /\ outcome \in {Exit(MSG_NO_DETAIL), Exit(MSG_OBJECT)}
         /\ ~Took("decrypt")

C1_Witness ==
  /\ InServerConnection /\ pc = "done"
  /\ reply = Json(ObjectDetail)
  /\ outcome = Exit(MSG_OBJECT)
  /\ steps = <<"select", "fetch">>

\* C2 (as claimed): a configuration with more than one of get_secret,
\* get_secrets, get_table non-empty is rejected with a usage error, and no
\* request is built or sent.
C2_MultiModeRejected ==
  (InServerConnection /\ ModeCount(config) > 1 /\ pc # "start") =>
    /\ pc = "done"
    /\ outcome.kind = "exit"
    /\ request = NoRequest
    /\ ~Took("fetch")

\* C3 (as claimed): a configuration with none of get_secret, get_secrets,
\* get_table non-empty ends in a usage error; request materials with an
\* empty URL are never returned and no fetch is attempted.
C3_NoModeRejected ==
  (InServerConnection /\ ModeCount(config) = 0 /\ pc # "start") =>
    /\ pc = "done"
    /\ outcome \in {Exit(MSG_TABLE), Exit(MSG_UNFILLED)}
    /\ request = NoRequest
    /\ ~Took("fetch")

C5_SingleBucketKey ==
  (Decrypted /\ call_clock >= 0) =>
    \A pt \in Plaintexts, b \in BucketsInPlay :
      (/\ b # call_clock \div TRANSIT_TIME_BUCKET
       /\ cipher_text = EnvelopeTable[config.apikey, pt, b])
        => outcome.result = Err(ERR_DECRYPT)

\* the peer sealed in bucket b when the request was sent, the clock moved
\* on, and the call read it in bucket b + 1
C5_Witness ==
  /\ InServerConnection /\ Decrypted
  /\ fetch_clock >= 0
  /\ call_clock \div TRANSIT_TIME_BUCKET = fetch_clock \div TRANSIT_TIME_BUCKET + 1
  /\ cipher_text = EnvelopeTable[config.apikey, to_vec(NumberValue(7)),
                                 fetch_clock \div TRANSIT_TIME_BUCKET]
  /\ outcome.result = Err(ERR_DECRYPT)

\* C6: round trip.  A value sealed under the key of (b, c), nonce prefixed,
\* base64-encoded, and decrypted with credential c at a time in bucket b,
\* comes back as Ok of that value.
C6_RoundTrip ==
  Decrypted =>
    \A v \in Values, b \in BucketsInPlay :
      (/\ b * TRANSIT_TIME_BUCKET <= call_clock
       /\ call_clock < (b + 1) * TRANSIT_TIME_BUCKET
       /\ cipher_text = EnvelopeTable[config.apikey, to_vec(v), b])
        => outcome.result = Ok(v)

C6_Witness ==
  /\ Decrypted /\ ticks > 0
  /\ call_clock = 2 * TRANSIT_TIME_BUCKET - 1
  /\ cipher_text = EnvelopeTable[config.apikey, to_vec(NumberValue(42)), 1]
  /\ outcome.result = Ok(NumberValue(42))

\* C7: one run of server_connection takes its steps in the order selection,
\* fetch, decryption, each at most once, and takes no further step once a
\* fetch or a decryption has failed or the run has ended.
C7_SingleShot ==
  /\ [](InServerConnection =>
          /\ IsPrefix(steps, <<"select", "fetch", "decrypt">>)
          /\ outcome.kind # "none" => pc = "done")
  /\ [][(InServerConnection /\ outcome.kind # "none") => steps' = steps]_vars

C7_Witness ==
  /\ InServerConnection /\ pc = "done"
  /\ steps = <<"select", "fetch", "decrypt">>
  /\ outcome.kind = "return" /\ ~outcome.result.ok

\* C8: with table_name and get_table both empty the run ends in the usage
\* error whatever the other flags are, and no request is sent; every request
\* that is sent carries a non-empty table_name parameter.
C8_TableNameMandatory ==
  InServerConnection =>
    /\ (NoTable(config) /\ pc # "start") =>
         /\ pc = "done"
         /\ outcome = Exit(MSG_TABLE)
         /\ request = NoRequest
         /\ ~Took("fetch")
    /\ Took("fetch") =>
         /\ "table_name" \in DOMAIN request.params
         /\ request.params["table_name"] # ""

C8_Witness ==
  /\ InServerConnection /\ pc = "done"
  /\ NoTable(config) /\ config.get_secret # "" /\ config.get_secrets # ""
  /\ outcome = Exit(MSG_TABLE)

\* C9 (as claimed): every envelope that is valid base64 and decodes to fewer
\* than 12 bytes gives the truncated-ciphertext error.
C9_ShortAlwaysTruncated ==
  (Decrypted /\ decode(cipher_text).ok /\ Len(decode(cipher_text).bytes) < 12)
    => outcome.result = Err(ERR_SHORT)

\* C9 (amended): an envelope that is valid base64 and decodes to fewer than
\* 12 bytes gives the truncated-ciphertext error when the clock read
\* succeeds, and the clock error when the system time is before the epoch;
\* in both cases the call returns before the split at offset 12.
C9_ShortTruncatedOrClock ==
  (Decrypted /\ decode(cipher_text).ok /\ Len(decode(cipher_text).bytes) < 12)
    => outcome.result = IF call_clock >= 0 THEN Err(ERR_SHORT) ELSE Err(ERR_CLOCK)

C9_Witness ==
  /\ Decrypted /\ call_clock >= 0
  /\ decode(cipher_text).ok /\ Len(decode(cipher_text).bytes) = 11
  /\ outcome.result = Err(ERR_SHORT)

\* C10: transit_decrypt reports the first failing step in the order clock
\* read, base64 decode, length check, key construction, nonce construction,
\* authenticated decryption, JSON parse; the seven errors are distinct
\* values and Ok is returned only when every step succeeds.
C10_FirstFailingStep ==
  /\ Cardinality({ERR_CLOCK, ERR_DECODE, ERR_SHORT, ERR_KEY, ERR_NONCE,
                  ERR_DECRYPT, ERR_JSON}) = 7
  /\ Decrypted =>
       LET d == decode(cipher_text)
           key == DerivedKey(call_clock \div TRANSIT_TIME_BUCKET, config.apikey)
           nonce == SubSeq(d.bytes, 1, 12)
           data == SubSeq(d.bytes, 13, Len(d.bytes))
           opened == open_in_place(key, nonce, data)
       IN
       /\ call_clock < 0 => outcome.result = Err(ERR_CLOCK)
       /\ (call_clock >= 0 /\ ~d.ok) => outcome.result = Err(ERR_DECODE)
       /\ (call_clock >= 0 /\ d.ok /\ Len(d.bytes) < 12) => outcome.result = Err(ERR_SHORT)
       /\ (call_clock >= 0 /\ d.ok /\ Len(d.bytes) >= 12 /\ ~opened.ok)
            => outcome.result = Err(ERR_DECRYPT)
       /\ (call_clock >= 0 /\ d.ok /\ Len(d.bytes) >= 12 /\ opened.ok)
            => /\ outcome.result = from_slice(opened.bytes)
               /\ outcome.result.ok \/ outcome.result = Err(ERR_JSON)
       /\ outcome.result.ok =>
            /\ call_clock >= 0 /\ d.ok /\ Len(d.bytes) >= 12 /\ opened.ok
            /\ from_slice(opened.bytes).ok

\* the clock read and the decode both fail; the clock error is reported
C10_Witness ==
  /\ Decrypted
  /\ call_clock < 0 /\ ~decode(cipher_text).ok
  /\ outcome.result = Err(ERR_CLOCK)

====
